---- MODULE Spec2Model ----
(***************************************************************************)
(* Model of the IPI loss-component calculation of src/main2.py:            *)
(* ejecutar_calculo (60-month window, recovery join, Nov-Oct banding,      *)
(* Type A / Type B threshold tests, consolidated table, average) followed  *)
(* by the ratio C and the obtener_ipi step table.                          *)
(*                                                                         *)
(* Amounts are integers.  A date is a record [y, m, d]; a date cell also   *)
(* carries the dtype of its column ("object" for text read from the sheet, *)
(* "datetime64" once parsed).  A float that may be NaN is a record         *)
(* [nan, num, den] standing for num/den.  Display-only columns (account    *)
(* catalogues, recovery date) are not carried.                             *)
(***************************************************************************)
EXTENDS Integers, Sequences, FiniteSets, TLC

VARIABLES pc, An9_in, An9, An10, umbral_input, ultima_fecha, fecha_min,
          An9_2, An10_agg, AN9, DATA, df_agrupado, df_filtrado, refs_umbral,
          totalizador_umbral, DATA2, tabla_riesgo_banda,
          tabla_riesgo_banda_umbral, totalizador_umbral_anio, tabla_final,
          promedio_anual, clases_B, cin_input, cp_calculado, c_cociente,
          ipi_final

vars == <<pc, An9_in, An9, An10, umbral_input, ultima_fecha, fecha_min,
          An9_2, An10_agg, AN9, DATA, df_agrupado, df_filtrado, refs_umbral,
          totalizador_umbral, DATA2, tabla_riesgo_banda,
          tabla_riesgo_banda_umbral, totalizador_umbral_anio, tabla_final,
          promedio_anual, clases_B, cin_input, cp_calculado, c_cociente,
          ipi_final>>

(***************************************************************************)
(* Bounds of the model.                                                    *)
(***************************************************************************)
MaxFilas == 2
MaxRecuperos == 2

(***************************************************************************)
(* Program constants.                                                      *)
(***************************************************************************)
MesesVentana == 60
FactorCapital == 15

(***************************************************************************)
(* Generic helpers: sums and sorted keys as pandas computes them.          *)
(***************************************************************************)
RECURSIVE SumaSobre(_, _)
SumaSobre(S, f) ==
  IF S = {} THEN 0
  ELSE LET x == CHOOSE x \in S : TRUE
       IN  f[x] + SumaSobre(S \ {x}, f)

RECURSIVE ClavesOrdenadas(_)
ClavesOrdenadas(S) ==
  IF S = {} THEN <<>>
  ELSE LET m == CHOOSE x \in S : \A y \in S : x <= y
       IN  <<m>> \o ClavesOrdenadas(S \ {m})

Minimo(S) == CHOOSE x \in S : \A y \in S : x <= y

(***************************************************************************)
(* Floats: a number num/den (den > 0) or NaN.                              *)
(***************************************************************************)
Numero(n, d) == [nan |-> FALSE, num |-> n, den |-> d]
NaN == [nan |-> TRUE, num |-> 0, den |-> 1]
Cero == Numero(0, 1)

\* c <= k/10 as Python compares floats: every comparison with NaN is False.
MenorIgualDecimas(c, k) == (~c.nan) /\ (c.num * 10 <= k * c.den)

(***************************************************************************)
(* Dates.                                                                  *)
(***************************************************************************)
Fecha(y, m, d) == [y |-> y, m |-> m, d |-> d]

Bisiesto(y) == (y % 4 = 0) /\ ((y % 100 # 0) \/ (y % 400 = 0))

DiasDelMes(y, m) ==
  IF m = 2 THEN (IF Bisiesto(y) THEN 29 ELSE 28)
  ELSE IF m \in {4, 6, 9, 11} THEN 30 ELSE 31

\* Position of a Timestamp on the time line (only its order is used).
Ordinal(f) == (f.y * 12 + (f.m - 1)) * 31 + (f.d - 1)

\* A cell of the date column: the date and the dtype it is stored with.
Celda(tipo, f) == [tipo |-> tipo, y |-> f.y, m |-> f.m, d |-> f.d]

\* pd.to_datetime: text is parsed, the result is always a Timestamp.
to_datetime(c) == [c EXCEPT !.tipo = "datetime64"]

\* Timestamp - pd.DateOffset(months=n): month arithmetic, day clamped to
\* the length of the target month.
DateOffsetMeses(f, n) ==
  LET t  == f.y * 12 + (f.m - 1) - n
      yy == t \div 12
      mm == (t % 12) + 1
      dd == IF f.d <= DiasDelMes(yy, mm) THEN f.d ELSE DiasDelMes(yy, mm)
  IN  Fecha(yy, mm, dd)

\* Series.max() of the date column.
MaxFecha(filas) ==
  LET i == CHOOSE i \in DOMAIN filas :
             \A j \in DOMAIN filas :
               Ordinal(filas[j].Fecha_de_registro_contable)
                 <= Ordinal(filas[i].Fecha_de_registro_contable)
  IN  Fecha(filas[i].Fecha_de_registro_contable.y,
            filas[i].Fecha_de_registro_contable.m,
            filas[i].Fecha_de_registro_contable.d)

(***************************************************************************)
(* 1. Window of 60 months.                                                 *)
(***************************************************************************)
\* Mutant of FiltrarVentana: the lower bound is exclusive.
FiltrarVentana_estricto(filas, fmin, fmax) ==
  LET Dentro(r) ==
        /\ Ordinal(r.Fecha_de_registro_contable) > Ordinal(fmin)
        /\ Ordinal(r.Fecha_de_registro_contable) <= Ordinal(fmax)
  IN  SelectSeq(filas, Dentro)

\* An9[(fecha >= fecha_min) & (fecha <= ultima_fecha)].copy()
FiltrarVentana(filas, fmin, fmax) ==
  LET Dentro(r) ==
        /\ Ordinal(r.Fecha_de_registro_contable) >= Ordinal(fmin)
        /\ Ordinal(r.Fecha_de_registro_contable) <= Ordinal(fmax)
  IN  SelectSeq(filas, Dentro)

(***************************************************************************)
(* 2. Recoveries: one aggregated row per reference, then a left join.      *)
(***************************************************************************)
\* Mutant of AgruparAn10: the recoveries are joined without aggregation.
AgruparAn10_sin_agrupar(an10) ==
  [i \in DOMAIN an10 |->
     [Referencia |-> an10[i].Referencia, Recuperacion |-> an10[i].Recuperacion]]

\* An10.groupby("Referencia", as_index=False).agg({"Recuperacion": "sum"})
AgruparAn10(an10) ==
  LET refs  == {an10[i].Referencia : i \in DOMAIN an10}
      orden == ClavesOrdenadas(refs)
      rec   == [i \in DOMAIN an10 |-> an10[i].Recuperacion]
  IN  [k \in DOMAIN orden |->
         [Referencia   |-> orden[k],
          Recuperacion |->
            SumaSobre({i \in DOMAIN an10 : an10[i].Referencia = orden[k]}, rec)]]

\* A merged cell: a value, or missing when the left row has no match.
Valor(v) == [na |-> FALSE, v |-> v]
Faltante == [na |-> TRUE, v |-> 0]
fillna0(c) == IF c.na THEN 0 ELSE c.v

\* left.merge(right, on="Referencia", how="left"): every left row once per
\* matching right row, or once with missing right columns.
RECURSIVE MergeLeft(_, _)
MergeLeft(left, right) ==
  IF left = <<>> THEN <<>>
  ELSE LET l == Head(left)
           Coincide(r) == r.Referencia = l.Referencia
           m == SelectSeq(right, Coincide)
           Fila(c) ==
             [Referencia |-> l.Referencia,
              Fecha_de_registro_contable |-> l.Fecha_de_registro_contable,
              Cuantia_bruta |-> l.Cuantia_bruta,
              Clase_de_riesgo_operacional_nivel_2 |->
                l.Clase_de_riesgo_operacional_nivel_2,
              Recuperacion |-> c]
           filas == IF m = <<>> THEN <<Fila(Faltante)>>
                    ELSE [j \in DOMAIN m |-> Fila(Valor(m[j].Recuperacion))]
       IN  filas \o MergeLeft(Tail(left), right)

(***************************************************************************)
(* 5. Band year (November - October).                                      *)
(***************************************************************************)
\* Mutant of anio_nov: the band rolls over on October 1.
anio_nov_octubre(f) == IF f.m <= 9 THEN f.y - 1 ELSE f.y

\* DATA["anio_nov"] = year; rows with month <= 10 get year - 1.
anio_nov(f) == IF f.m <= 10 THEN f.y - 1 ELSE f.y

(***************************************************************************)
(* 6. Type A: (band, reference) pairs over the threshold.                  *)
(***************************************************************************)
\* DATA.groupby(["Año_banda", "Referencia"])[net].sum()
AgruparBandaReferencia(data) ==
  LET neto == [i \in DOMAIN data |-> data[i].Perdida_neta]
  IN  {[Anio_banda |-> k[1], Referencia |-> k[2],
        Perdida_neta |->
          SumaSobre({i \in DOMAIN data :
                       /\ data[i].Anio_banda = k[1]
                       /\ data[i].Referencia = k[2]}, neto)] :
       k \in {<<data[i].Anio_banda, data[i].Referencia>> : i \in DOMAIN data}}

\* Mutant of FiltroTipoA: a sum equal to the threshold is flagged as well.
FiltroTipoA_inclusivo(df, umbral) == {g \in df : g.Perdida_neta >= umbral}

\* df_agrupado[df_agrupado[net] > umbral_input]
FiltroTipoA(df, umbral) == {g \in df : g.Perdida_neta > umbral}

(***************************************************************************)
(* 7. Type B: (category, band) groups of the rows that are not Type A.     *)
(***************************************************************************)
\* Mutant of SeleccionDATA2: Type A rows stay in the input of the B test.
SeleccionDATA2_todas(data) == data

\* DATA[DATA["Tipo de umbral"] == 'B'].copy()
SeleccionDATA2(data) ==
  LET EsB(r) == r.Tipo_de_umbral = "B"
  IN  SelectSeq(data, EsB)

map_riesgo_nivel_2 ==
  (11 :> "1.1 Actividades no Autorizadas") @@
  (12 :> "1.2 Hurto y Fraude Interno") @@
  (13 :> "1.3 Seguridad de los sistemas") @@
  (14 :> "1.4 Otros") @@
  (21 :> "2.1 Hurto y Fraude Externo") @@
  (22 :> "2.2 Seguridad de los sistemas") @@
  (23 :> "2.3 Otros") @@
  (31 :> "3.1 Relaciones Laborales") @@
  (32 :> "3.2 Higiene y Seguridad laboral") @@
  (33 :> "3.3 Desigualdad y Discriminacion") @@
  (34 :> "3.4 Otros") @@
  (41 :> "4.1 Indebida Divulgacion de Informacion y Abuso de Confianza") @@
  (42 :> "4.2 Practicas Empresariales o de Mercado Improcedentes") @@
  (43 :> "4.3 Productos inadecuados") @@
  (44 :> "4.4 Actividades de Asesoramiento") @@
  (45 :> "4.5 Otros") @@
  (51 :> "5.1 Desastres naturales") @@
  (52 :> "5.2 Otros acontecimientos") @@
  (53 :> "5.3 Otras causas externas") @@
  (61 :> "6.1 Sistemas") @@
  (62 :> "6.2 Otros") @@
  (71 :> "7.1 Recepcion, Ejecucion y Mantenimiento de Operaciones") @@
  (72 :> "7.2 Seguimiento y Presentacion de Informes") @@
  (73 :> "7.3 Aceptacion de Clientes y Documentacion") @@
  (74 :> "7.4 Gestion de Cuentas de Clientes") @@
  (75 :> "7.5 Incumplimiento de la regulacion vigente") @@
  (76 :> "7.6 Acuerdos y Convenios Comerciales") @@
  (77 :> "7.7 Proveedores") @@
  (78 :> "7.8 Otros")

\* The missing label Series.map gives to a code that is no key of the table.
SinEtiqueta == "NaN"

\* Mutant of MapearRiesgo: an unknown code falls back to a catch-all label.
MapearRiesgo_por_defecto(codigo) ==
  IF codigo \in DOMAIN map_riesgo_nivel_2
  THEN map_riesgo_nivel_2[codigo] ELSE "7.8 Otros"

\* Series.map(map_riesgo_nivel_2) on one cell.
MapearRiesgo(codigo) ==
  IF codigo \in DOMAIN map_riesgo_nivel_2
  THEN map_riesgo_nivel_2[codigo] ELSE SinEtiqueta

MapearColumna(data) ==
  [i \in DOMAIN data |->
     [data[i] EXCEPT !.Clase_de_riesgo_operacional_nivel_2 = MapearRiesgo(@)]]

\* DATA2.groupby([clase, "Año_banda"], observed=True)["Cuantia_bruta"].sum():
\* groupby drops the rows whose key is missing.
AgruparRiesgoBanda(data2) ==
  LET bruta == [i \in DOMAIN data2 |-> data2[i].Cuantia_bruta]
      conClave == {i \in DOMAIN data2 :
                     data2[i].Clase_de_riesgo_operacional_nivel_2 # SinEtiqueta}
  IN  {[Clase_de_riesgo_operacional_nivel_2 |-> k[1], Anio_banda |-> k[2],
        Cuantia_bruta |->
          SumaSobre({i \in conClave :
                       /\ data2[i].Clase_de_riesgo_operacional_nivel_2 = k[1]
                       /\ data2[i].Anio_banda = k[2]}, bruta)] :
       k \in {<<data2[i].Clase_de_riesgo_operacional_nivel_2,
                data2[i].Anio_banda>> : i \in conClave}}

\* tabla_riesgo_banda[tabla_riesgo_banda["Cuantia_bruta"] >= umbral_input]
FiltroTipoB(tabla, umbral) == {g \in tabla : g.Cuantia_bruta >= umbral}

\* Sum of a column of a grouped frame per band: a Series indexed by band.
TotalPorBanda(grupos, col) ==
  [b \in {g.Anio_banda : g \in grupos} |->
     SumaSobre({g \in grupos : g.Anio_banda = b}, col)]

(***************************************************************************)
(* 7b. Consolidated table and average.                                     *)
(***************************************************************************)
EnSerie(serie, b) == IF b \in DOMAIN serie THEN serie[b] ELSE 0

\* pd.concat([A, B], axis=1).fillna(0).T plus the TOTAL column and row.
Consolidar(A, B) ==
  LET cols == (DOMAIN A) \cup (DOMAIN B)
      fa   == [b \in cols |-> EnSerie(A, b)]
      fb   == [b \in cols |-> EnSerie(B, b)]
      ta   == SumaSobre(cols, fa)
      tb   == SumaSobre(cols, fb)
  IN  [cols |-> cols, TipoA |-> fa, TipoB |-> fb,
       TOTAL |-> [b \in cols |-> fa[b] + fb[b]],
       TOTAL_TipoA |-> ta, TOTAL_TipoB |-> tb, TOTAL_TOTAL |-> ta + tb]

\* DataFrame.empty: some axis has length 0.  The table always has its three
\* rows and its TOTAL column.
TablaVacia(t) == Cardinality(t.cols) + 1 = 0

\* tabla_final.loc["TOTAL"].drop("TOTAL").mean(): the mean of no value is NaN.
PromedioAnual(t) ==
  IF ~TablaVacia(t)
  THEN IF t.cols = {} THEN NaN
       ELSE Numero(SumaSobre(t.cols, t.TOTAL), Cardinality(t.cols))
  ELSE Cero

(***************************************************************************)
(* 8. Final classification of every row.                                   *)
(***************************************************************************)
\* Mutant of asignar_umbral: the category test is tried before the
\* reference test.
asignar_umbral_B_primero(row, refs, clases) ==
  IF <<row.Clase_de_riesgo_operacional_nivel_2, row.Anio_banda>> \in clases
  THEN "B"
  ELSE IF row.Referencia \in refs THEN "A" ELSE "N/A"

asignar_umbral(row, refs, clases) ==
  IF row.Referencia \in refs THEN "A"
  ELSE IF <<row.Clase_de_riesgo_operacional_nivel_2, row.Anio_banda>> \in clases
       THEN "B"
       ELSE "N/A"

(***************************************************************************)
(* 9. Step table of the indicator, in tenths (0.7 is 7).                   *)
(***************************************************************************)
\* Mutant of obtener_ipi: the first bracket excludes its upper bound.
obtener_ipi_exclusivo(c) ==
  IF (~c.nan) /\ (c.num * 10 < 2 * c.den) THEN 7
  ELSE IF MenorIgualDecimas(c, 4) THEN 8
  ELSE IF MenorIgualDecimas(c, 7) THEN 9
  ELSE IF MenorIgualDecimas(c, 10) THEN 10
  ELSE IF MenorIgualDecimas(c, 14) THEN 11
  ELSE IF MenorIgualDecimas(c, 18) THEN 12
  ELSE IF MenorIgualDecimas(c, 23) THEN 13
  ELSE IF MenorIgualDecimas(c, 29) THEN 14
  ELSE IF MenorIgualDecimas(c, 36) THEN 15
  ELSE IF MenorIgualDecimas(c, 44) THEN 16
  ELSE 17

obtener_ipi(c) ==
  IF MenorIgualDecimas(c, 2) THEN 7
  ELSE IF MenorIgualDecimas(c, 4) THEN 8
  ELSE IF MenorIgualDecimas(c, 7) THEN 9
  ELSE IF MenorIgualDecimas(c, 10) THEN 10
  ELSE IF MenorIgualDecimas(c, 14) THEN 11
  ELSE IF MenorIgualDecimas(c, 18) THEN 12
  ELSE IF MenorIgualDecimas(c, 23) THEN 13
  ELSE IF MenorIgualDecimas(c, 29) THEN 14
  ELSE IF MenorIgualDecimas(c, 36) THEN 15
  ELSE IF MenorIgualDecimas(c, 44) THEN 16
  ELSE 17

(***************************************************************************)
(* Inputs.  The loss register has at least one row.                        *)
(***************************************************************************)
FilaAn9(ref, celda, bruta, clase) ==
  [Referencia |-> ref, Fecha_de_registro_contable |-> celda,
   Cuantia_bruta |-> bruta, Clase_de_riesgo_operacional_nivel_2 |-> clase]

FilaAn10(ref, seguros, otras) ==
  [Referencia |-> ref, Cuantia_recuperada_por_seguros |-> seguros,
   Cuantia_de_otras_recuperaciones |-> otras]

Secuencias(S, n) == UNION {[1..k -> S] : k \in 0..n}

TiposColumna == {"object", "datetime64"}

\* Dates around the edges of the window, of February and of the band year.
FechasVentana ==
  {Fecha(2019, 2, 27), Fecha(2019, 2, 28), Fecha(2019, 10, 31),
   Fecha(2019, 11, 1), Fecha(2024, 2, 29), Fecha(2024, 10, 31),
   Fecha(2024, 11, 1)}

\* The first date is out of the window that ends at the second.
FechasCruce == {Fecha(2019, 10, 31), Fecha(2024, 11, 1)}

FechasClasificacion == {Fecha(2023, 12, 1), Fecha(2024, 11, 1)}

Montos == {1, 3}
Umbrales == {2, 3}
\* 11 is a key of the category table, 99 is not.
Clases == {11, 99}
CinValores == {0, 30}

\* Values not yet computed.
SinCalcular ==
  /\ ultima_fecha = Fecha(0, 0, 0)
  /\ fecha_min = Fecha(0, 0, 0)
  /\ An9_2 = <<>>
  /\ An10_agg = <<>>
  /\ AN9 = <<>>
  /\ DATA = <<>>
  /\ df_agrupado = {}
  /\ df_filtrado = {}
  /\ refs_umbral = {}
  /\ totalizador_umbral = <<>>
  /\ DATA2 = <<>>
  /\ tabla_riesgo_banda = {}
  /\ tabla_riesgo_banda_umbral = {}
  /\ totalizador_umbral_anio = <<>>
  /\ tabla_final = Consolidar(<<>>, <<>>)
  /\ promedio_anual = Cero
  /\ clases_B = {}
  /\ cin_input = 0
  /\ cp_calculado = Cero
  /\ c_cociente = Cero
  /\ ipi_final = 0

\* Registers whose rows differ in their dates only.
EntradaVentana ==
  /\ \E tipo \in TiposColumna :
       An9_in \in {[i \in DOMAIN fs |-> FilaAn9(1, Celda(tipo, fs[i]), 3, 11)] :
                     fs \in Secuencias(FechasVentana, MaxFilas + 1) \ {<<>>}}
  /\ An10 = <<>>
  /\ umbral_input = 2

\* Registers that exercise the join: shared references, several recoveries.
EntradaCruce ==
  /\ An9_in \in Secuencias({FilaAn9(r, Celda("datetime64", f), 3, 11) :
                              r \in {1, 2}, f \in FechasCruce},
                           MaxFilas + 1) \ {<<>>}
  /\ An10 \in Secuencias({FilaAn10(r, 1, 1) : r \in {1, 2}}, MaxRecuperos)
  /\ umbral_input = 2

\* Registers that exercise the two threshold tests.
EntradaClasificacion ==
  /\ An9_in \in Secuencias({FilaAn9(r, Celda("datetime64", f), b, c) :
                              r \in {1, 2}, f \in FechasClasificacion,
                              b \in Montos, c \in Clases},
                           MaxFilas) \ {<<>>}
  /\ An10 = <<FilaAn10(1, 1, 0)>>
  /\ umbral_input \in Umbrales

Init ==
  /\ pc = "ventana"
  /\ \/ EntradaVentana
     \/ EntradaCruce
     \/ EntradaClasificacion
  /\ An9 = An9_in
  /\ SinCalcular

(***************************************************************************)
(* ejecutar_calculo, one action per numbered section of the function.      *)
(***************************************************************************)
\* Section 1: the date column of the caller's frame is replaced by its
\* conversion, then the window is cut out as a copy.
Ventana ==
  /\ pc = "ventana"
  /\ LET conv == [i \in DOMAIN An9 |->
                    [An9[i] EXCEPT !.Fecha_de_registro_contable = to_datetime(@)]]
         ult  == MaxFecha(conv)
         fmin == DateOffsetMeses(ult, MesesVentana)
     IN  /\ An9' = conv
         /\ ultima_fecha' = ult
         /\ fecha_min' = fmin
         /\ An9_2' = FiltrarVentana(conv, fmin, ult)
  /\ pc' = "cruce"
  /\ UNCHANGED <<An9_in, An10, umbral_input, An10_agg, AN9, DATA, df_agrupado,
                 df_filtrado, refs_umbral, totalizador_umbral, DATA2,
                 tabla_riesgo_banda, tabla_riesgo_banda_umbral,
                 totalizador_umbral_anio, tabla_final, promedio_anual,
                 clases_B, cin_input, cp_calculado, c_cociente, ipi_final>>

\* Sections 2 and 3: recovery per row, aggregation, left join, net loss.
Cruce ==
  /\ pc = "cruce"
  /\ LET an10 == [i \in DOMAIN An10 |->
                    [Referencia |-> An10[i].Referencia,
                     Cuantia_recuperada_por_seguros |->
                       An10[i].Cuantia_recuperada_por_seguros,
                     Cuantia_de_otras_recuperaciones |->
                       An10[i].Cuantia_de_otras_recuperaciones,
                     Recuperacion |->
                       An10[i].Cuantia_recuperada_por_seguros
                         + An10[i].Cuantia_de_otras_recuperaciones]]
         agg  == AgruparAn10(an10)
         m    == MergeLeft(An9_2, agg)
     IN  /\ An10' = an10
         /\ An10_agg' = agg
         /\ AN9' = [i \in DOMAIN m |->
                      [Referencia |-> m[i].Referencia,
                       Fecha_de_registro_contable |->
                         m[i].Fecha_de_registro_contable,
                       Cuantia_bruta |-> m[i].Cuantia_bruta,
                       Clase_de_riesgo_operacional_nivel_2 |->
                         m[i].Clase_de_riesgo_operacional_nivel_2,
                       Recuperacion |-> fillna0(m[i].Recuperacion),
                       Cuantia_recuperada_por_seguros |->
                         fillna0(m[i].Recuperacion),
                       Perdida_neta |->
                         m[i].Cuantia_bruta - fillna0(m[i].Recuperacion)]]
  /\ pc' = "banda"
  /\ UNCHANGED <<An9_in, An9, umbral_input, ultima_fecha, fecha_min, An9_2,
                 DATA, df_agrupado, df_filtrado, refs_umbral,
                 totalizador_umbral, DATA2, tabla_riesgo_banda,
                 tabla_riesgo_banda_umbral, totalizador_umbral_anio,
                 tabla_final, promedio_anual, clases_B, cin_input,
                 cp_calculado, c_cociente, ipi_final>>

\* Sections 4 and 5: the columns of DATA and the band of every row.
Banda ==
  /\ pc = "banda"
  /\ LET an   == [i \in DOMAIN AN9 |->
                    anio_nov(to_datetime(AN9[i].Fecha_de_registro_contable))]
         base == Minimo({an[i] : i \in DOMAIN AN9})
     IN  DATA' = [i \in DOMAIN AN9 |->
                    [Referencia |-> AN9[i].Referencia,
                     Fecha_de_registro_contable |->
                       AN9[i].Fecha_de_registro_contable,
                     Cuantia_bruta |-> AN9[i].Cuantia_bruta,
                     Cuantia_recuperada_por_seguros |->
                       AN9[i].Cuantia_recuperada_por_seguros,
                     Perdida_neta |-> AN9[i].Perdida_neta,
                     Clase_de_riesgo_operacional_nivel_2 |->
                       AN9[i].Clase_de_riesgo_operacional_nivel_2,
                     Fecha |-> to_datetime(AN9[i].Fecha_de_registro_contable),
                     anio_nov |-> an[i],
                     Anio_banda |-> an[i] - base + 1,
                     Tipo_de_umbral |-> ""]]
  /\ pc' = "tipoA"
  /\ UNCHANGED <<An9_in, An9, An10, umbral_input, ultima_fecha, fecha_min,
                 An9_2, An10_agg, AN9, df_agrupado, df_filtrado, refs_umbral,
                 totalizador_umbral, DATA2, tabla_riesgo_banda,
                 tabla_riesgo_banda_umbral, totalizador_umbral_anio,
                 tabla_final, promedio_anual, clases_B, cin_input,
                 cp_calculado, c_cociente, ipi_final>>

\* Section 6: the (band, reference) test and the provisional A/B split.
TipoA ==
  /\ pc = "tipoA"
  /\ LET agr  == AgruparBandaReferencia(DATA)
         fil  == FiltroTipoA(agr, umbral_input)
         refs == {g.Referencia : g \in fil}
     IN  /\ df_agrupado' = agr
         /\ df_filtrado' = fil
         /\ refs_umbral' = refs
         /\ DATA' = [i \in DOMAIN DATA |->
                       [DATA[i] EXCEPT !.Tipo_de_umbral =
                          IF DATA[i].Referencia \in refs THEN "A" ELSE "B"]]
  /\ pc' = "tipoB"
  /\ UNCHANGED <<An9_in, An9, An10, umbral_input, ultima_fecha, fecha_min,
                 An9_2, An10_agg, AN9, totalizador_umbral, DATA2,
                 tabla_riesgo_banda, tabla_riesgo_banda_umbral,
                 totalizador_umbral_anio, tabla_final, promedio_anual,
                 clases_B, cin_input, cp_calculado, c_cociente, ipi_final>>

\* Section 7, first half: Type A totals per band, category labels, the
\* (category, band) test and the Type B totals per band.
TipoB ==
  /\ pc = "tipoB"
  /\ LET d2   == MapearColumna(SeleccionDATA2(DATA))
         trb  == AgruparRiesgoBanda(d2)
         trbu == FiltroTipoB(trb, umbral_input)
     IN  /\ totalizador_umbral' =
               TotalPorBanda(df_filtrado,
                             [g \in df_filtrado |-> g.Perdida_neta])
         /\ DATA2' = d2
         /\ DATA' = MapearColumna(DATA)
         /\ tabla_riesgo_banda' = trb
         /\ tabla_riesgo_banda_umbral' = trbu
         /\ totalizador_umbral_anio' =
               TotalPorBanda(trbu, [g \in trbu |-> g.Cuantia_bruta])
  /\ pc' = "consolidar"
  /\ UNCHANGED <<An9_in, An9, An10, umbral_input, ultima_fecha, fecha_min,
                 An9_2, An10_agg, AN9, df_agrupado, df_filtrado, refs_umbral,
                 tabla_final, promedio_anual, clases_B, cin_input,
                 cp_calculado, c_cociente, ipi_final>>

\* Section 7, second half: the consolidated table and the annual average.
Consolidacion ==
  /\ pc = "consolidar"
  /\ LET t == Consolidar(totalizador_umbral, totalizador_umbral_anio)
     IN  /\ tabla_final' = t
         /\ promedio_anual' = PromedioAnual(t)
  /\ pc' = "clasificar"
  /\ UNCHANGED <<An9_in, An9, An10, umbral_input, ultima_fecha, fecha_min,
                 An9_2, An10_agg, AN9, DATA, df_agrupado, df_filtrado,
                 refs_umbral, totalizador_umbral, DATA2, tabla_riesgo_banda,
                 tabla_riesgo_banda_umbral, totalizador_umbral_anio,
                 clases_B, cin_input, cp_calculado, c_cociente, ipi_final>>

\* End of the function: the flagged (category, band) pairs and the final
\* three-tier classification of every row of DATA.
Clasificar ==
  /\ pc = "clasificar"
  /\ LET cb == {<<g.Clase_de_riesgo_operacional_nivel_2, g.Anio_banda>> :
                  g \in tabla_riesgo_banda_umbral}
     IN  /\ clases_B' = cb
         /\ DATA' = [i \in DOMAIN DATA |->
                       [DATA[i] EXCEPT !.Tipo_de_umbral =
                          asignar_umbral(DATA[i], refs_umbral, cb)]]
  /\ pc' = "cociente"
  /\ UNCHANGED <<An9_in, An9, An10, umbral_input, ultima_fecha, fecha_min,
                 An9_2, An10_agg, AN9, df_agrupado, df_filtrado, refs_umbral,
                 totalizador_umbral, DATA2, tabla_riesgo_banda,
                 tabla_riesgo_banda_umbral, totalizador_umbral_anio,
                 tabla_final, promedio_anual, cin_input, cp_calculado,
                 c_cociente, ipi_final>>

\* promedio * 15, a float that stays NaN when the average is NaN.
Capital(prom) == [prom EXCEPT !.num = @ * FactorCapital]

\* cp_calculado / cin_input if cin_input > 0 else 0
Cociente(cp, cin) == IF cin > 0 THEN [cp EXCEPT !.den = @ * cin] ELSE Cero

\* The caller: capital result and ratio C, with the CIN of the side bar.
CalculoCociente ==
  /\ pc = "cociente"
  /\ \E cin \in CinValores :
       /\ cin_input' = cin
       /\ cp_calculado' = Capital(promedio_anual)
       /\ c_cociente' = Cociente(Capital(promedio_anual), cin)
  /\ pc' = "ipi"
  /\ UNCHANGED <<An9_in, An9, An10, umbral_input, ultima_fecha, fecha_min,
                 An9_2, An10_agg, AN9, DATA, df_agrupado, df_filtrado,
                 refs_umbral, totalizador_umbral, DATA2, tabla_riesgo_banda,
                 tabla_riesgo_banda_umbral, totalizador_umbral_anio,
                 tabla_final, promedio_anual, clases_B, ipi_final>>

\* ipi_final = obtener_ipi(c_cociente)
AsignarIPI ==
  /\ pc = "ipi"
  /\ ipi_final' = obtener_ipi(c_cociente)
  /\ pc' = "fin"
  /\ UNCHANGED <<An9_in, An9, An10, umbral_input, ultima_fecha, fecha_min,
                 An9_2, An10_agg, AN9, DATA, df_agrupado, df_filtrado,
                 refs_umbral, totalizador_umbral, DATA2, tabla_riesgo_banda,
                 tabla_riesgo_banda_umbral, totalizador_umbral_anio,
                 tabla_final, promedio_anual, clases_B, cin_input,
                 cp_calculado, c_cociente>>

Next ==
  \/ Ventana
  \/ Cruce
  \/ Banda
  \/ TipoA
  \/ TipoB
  \/ Consolidacion
  \/ Clasificar
  \/ CalculoCociente
  \/ AsignarIPI

Spec == Init /\ [][Next]_vars

(***************************************************************************)
(* obtener_ipi on its own: the ratio is drawn from a grid of steps of 0.05 *)
(* between 0 and 5, and from the values just above every breakpoint.       *)
(***************************************************************************)
Escala == 1000 * 10000
Cortes == {2, 4, 7, 10, 14, 18, 23, 29, 36, 44}

ValoresC ==
  {k * 500000 : k \in 0..100} \cup {k * 1000000 + 1 : k \in Cortes}

InitIPI ==
  /\ pc = "ipi"
  /\ c_cociente \in {Numero(n, Escala) : n \in ValoresC}
  /\ An9_in = <<>>
  /\ An9 = <<>>
  /\ An10 = <<>>
  /\ umbral_input = 0
  /\ ultima_fecha = Fecha(0, 0, 0)
  /\ fecha_min = Fecha(0, 0, 0)
  /\ An9_2 = <<>>
  /\ An10_agg = <<>>
  /\ AN9 = <<>>
  /\ DATA = <<>>
  /\ df_agrupado = {}
  /\ df_filtrado = {}
  /\ refs_umbral = {}
  /\ totalizador_umbral = <<>>
  /\ DATA2 = <<>>
  /\ tabla_riesgo_banda = {}
  /\ tabla_riesgo_banda_umbral = {}
  /\ totalizador_umbral_anio = <<>>
  /\ tabla_final = Consolidar(<<>>, <<>>)
  /\ promedio_anual = Cero
  /\ clases_B = {}
  /\ cin_input = 0
  /\ cp_calculado = Cero
  /\ ipi_final = 0

NextIPI == AsignarIPI

SpecIPI == InitIPI /\ [][NextIPI]_vars

(***************************************************************************)
(* Properties.  They are stated on the inputs and on the returned data,    *)
(* with their own arithmetic, not with the operators of the pipeline.      *)
(***************************************************************************)
TrasVentana == pc # "ventana"
TrasCruce == pc \notin {"ventana", "cruce"}
TrasBanda == pc \notin {"ventana", "cruce", "banda"}
TrasTipoB == pc \in {"consolidar", "clasificar", "cociente", "ipi", "fin"}
TrasConsolidar == pc \in {"clasificar", "cociente", "ipi", "fin"}
Clasificado == pc \in {"cociente", "ipi", "fin"}

\* f is strictly earlier than g.
Anterior(f, g) ==
  \/ f.y < g.y
  \/ f.y = g.y /\ f.m < g.m
  \/ f.y = g.y /\ f.m = g.m /\ f.d < g.d

FechaDe(c) == [y |-> c.y, m |-> c.m, d |-> c.d]

\* Summed net loss of the rows of DATA of band b and reference r.
NetoBandaReferencia(b, r) ==
  SumaSobre({i \in DOMAIN DATA :
               DATA[i].Anio_banda = b /\ DATA[i].Referencia = r},
            [i \in DOMAIN DATA |-> DATA[i].Perdida_neta])

\* Some (band, r) pair of the data has a summed net loss over the threshold.
ReferenciaSobreUmbral(r) ==
  \E i \in DOMAIN DATA :
    /\ DATA[i].Referencia = r
    /\ NetoBandaReferencia(DATA[i].Anio_banda, r) > umbral_input

\* Summed gross loss of the rows of category e and band b, over the rows of
\* references that are not Type A, and over all rows.
BrutoNoA(e, b) ==
  SumaSobre({i \in DOMAIN DATA :
               /\ DATA[i].Clase_de_riesgo_operacional_nivel_2 = e
               /\ DATA[i].Anio_banda = b
               /\ ~ReferenciaSobreUmbral(DATA[i].Referencia)},
            [i \in DOMAIN DATA |-> DATA[i].Cuantia_bruta])

BrutoTodas(e, b) ==
  SumaSobre({i \in DOMAIN DATA :
               /\ DATA[i].Clase_de_riesgo_operacional_nivel_2 = e
               /\ DATA[i].Anio_banda = b},
            [i \in DOMAIN DATA |-> DATA[i].Cuantia_bruta])

GrupoMarcadoB(e, b) ==
  \E g \in tabla_riesgo_banda_umbral :
    g.Clase_de_riesgo_operacional_nivel_2 = e /\ g.Anio_banda = b

\* C1: once ejecutar_calculo has classified the rows, every row of a
\* reference that has some (band, reference) net sum strictly over the
\* threshold is "A", in every band.
C1_ReferenciaTipoA ==
  Clasificado =>
    \A i \in DOMAIN DATA :
      ReferenciaSobreUmbral(DATA[i].Referencia)
        => DATA[i].Tipo_de_umbral = "A"

\* A reference over the threshold in one band has a row in another band,
\* where its own sum is not over the threshold, and that row is "A".
C1_Testigo ==
  /\ Clasificado
  /\ \E i, j \in DOMAIN DATA :
       /\ DATA[i].Referencia = DATA[j].Referencia
       /\ DATA[i].Anio_banda # DATA[j].Anio_banda
       /\ NetoBandaReferencia(DATA[i].Anio_banda, DATA[i].Referencia)
            > umbral_input
       /\ NetoBandaReferencia(DATA[j].Anio_banda, DATA[j].Referencia)
            <= umbral_input
       /\ DATA[j].Tipo_de_umbral = "A"

\* C2: a (band, reference) pair whose net sum equals the threshold is not in
\* df_filtrado, and a (category, band) group of non-A rows whose gross sum
\* equals the threshold is in tabla_riesgo_banda_umbral.
C2_Asimetria ==
  TrasTipoB =>
    \A i \in DOMAIN DATA :
      /\ NetoBandaReferencia(DATA[i].Anio_banda, DATA[i].Referencia)
           = umbral_input
         => ~\E g \in df_filtrado :
               /\ g.Anio_banda = DATA[i].Anio_banda
               /\ g.Referencia = DATA[i].Referencia
      /\ ( /\ DATA[i].Clase_de_riesgo_operacional_nivel_2 # SinEtiqueta
           /\ ~ReferenciaSobreUmbral(DATA[i].Referencia)
           /\ BrutoNoA(DATA[i].Clase_de_riesgo_operacional_nivel_2,
                       DATA[i].Anio_banda) = umbral_input )
         => GrupoMarcadoB(DATA[i].Clase_de_riesgo_operacional_nivel_2,
                          DATA[i].Anio_banda)

\* Both cases at once: a pair at the threshold that is not flagged A and a
\* group at the threshold that is flagged B.
C2_Testigo ==
  /\ TrasTipoB
  /\ \E i \in DOMAIN DATA :
       /\ NetoBandaReferencia(DATA[i].Anio_banda, DATA[i].Referencia)
            = umbral_input
       /\ DATA[i].Referencia \notin refs_umbral
  /\ \E g \in tabla_riesgo_banda_umbral : g.Cuantia_bruta = umbral_input

\* The latest date of the register handed in.
UltimaFechaEntrada ==
  CHOOSE f \in {FechaDe(An9_in[i].Fecha_de_registro_contable) :
                  i \in DOMAIN An9_in} :
    \A i \in DOMAIN An9_in :
      ~Anterior(f, FechaDe(An9_in[i].Fecha_de_registro_contable))

\* Sixty calendar months earlier: five years back, same month, and the last
\* day of that month when the day does not exist in it.
SesentaMesesAntes(f) ==
  [y |-> f.y - 5, m |-> f.m,
   d |-> IF f.d > DiasDelMes(f.y - 5, f.m) THEN DiasDelMes(f.y - 5, f.m)
         ELSE f.d]

EnVentana(f) ==
  /\ ~Anterior(f, SesentaMesesAntes(UltimaFechaEntrada))
  /\ ~Anterior(UltimaFechaEntrada, f)

\* C3: the filtered register holds exactly the rows of the register dated
\* within [max_date - 60 months, max_date], both ends included, in order.
C3_Ventana ==
  TrasVentana =>
    LET Dentro(r) == EnVentana(FechaDe(r.Fecha_de_registro_contable))
        Parseada(r) ==
          [r EXCEPT !.Fecha_de_registro_contable.tipo = "datetime64"]
    IN  An9_2 = SelectSeq([i \in DOMAIN An9_in |-> Parseada(An9_in[i])], Dentro)

\* A row dated exactly max_date - 60 months is kept while another row, dated
\* the day before, is dropped.
C3_Testigo ==
  /\ TrasVentana
  /\ \E i \in DOMAIN An9_2 :
       /\ FechaDe(An9_2[i].Fecha_de_registro_contable)
            = SesentaMesesAntes(UltimaFechaEntrada)
       /\ FechaDe(An9_2[i].Fecha_de_registro_contable) # UltimaFechaEntrada
  /\ \E i \in DOMAIN An9_in :
       Anterior(FechaDe(An9_in[i].Fecha_de_registro_contable),
                SesentaMesesAntes(UltimaFechaEntrada))
  /\ Len(An9_2) < Len(An9_in)

\* The loss columns of a row, with the category as the dataset shows it at
\* this point of the run (a code, then its label).
ColumnasPerdida(r, etiquetada) ==
  <<r.Referencia, FechaDe(r.Fecha_de_registro_contable), r.Cuantia_bruta,
    IF etiquetada THEN MapearRiesgo(r.Clase_de_riesgo_operacional_nivel_2)
    ELSE r.Clase_de_riesgo_operacional_nivel_2>>

Enriquecido == IF TrasBanda THEN DATA ELSE AN9

Veces(filas, v, etiquetada) ==
  Cardinality({i \in DOMAIN filas : ColumnasPerdida(filas[i], etiquetada) = v})

\* C4: every loss row of the window is exactly once in the enriched dataset:
\* each row value occurs as often in it as in the filtered register.
C4_UnaVezCadaFila ==
  TrasCruce =>
    /\ Len(Enriquecido) = Len(An9_2)
    /\ \A i \in DOMAIN An9_2 :
         Veces(Enriquecido, ColumnasPerdida(An9_2[i], TrasTipoB), FALSE)
           = Veces(An9_2, ColumnasPerdida(An9_2[i], TrasTipoB), TrasTipoB)

RecuperosDe(r) == Cardinality({i \in DOMAIN An10 : An10[i].Referencia = r})
PerdidasDe(r) == Cardinality({i \in DOMAIN An9_2 : An9_2[i].Referencia = r})

\* Two loss rows share a reference that has two recovery rows, and another
\* loss row has no recovery at all; the dataset has been returned.
C4_Testigo ==
  /\ Clasificado
  /\ \E r \in {1, 2} : RecuperosDe(r) >= 2 /\ PerdidasDe(r) >= 2
  /\ \E r \in {1, 2} : RecuperosDe(r) = 0 /\ PerdidasDe(r) >= 1

\* C5: the band never decreases with the date, and a row of October 31 and
\* a row of November 1 of the same year are exactly one band apart.
C5_BandaMonotona ==
  TrasBanda =>
    \A i, j \in DOMAIN DATA :
      /\ Anterior(FechaDe(DATA[i].Fecha_de_registro_contable),
                  FechaDe(DATA[j].Fecha_de_registro_contable))
         => DATA[i].Anio_banda <= DATA[j].Anio_banda
      /\ ( /\ DATA[i].Fecha_de_registro_contable.m = 10
           /\ DATA[i].Fecha_de_registro_contable.d = 31
           /\ DATA[j].Fecha_de_registro_contable.m = 11
           /\ DATA[j].Fecha_de_registro_contable.d = 1
           /\ DATA[i].Fecha_de_registro_contable.y
                = DATA[j].Fecha_de_registro_contable.y )
         => DATA[j].Anio_banda = DATA[i].Anio_banda + 1

\* The filtered data holds October 31 and November 1 of the same year.
C5_Testigo ==
  /\ TrasBanda
  /\ \E i, j \in DOMAIN DATA :
       /\ DATA[i].Fecha_de_registro_contable.m = 10
       /\ DATA[i].Fecha_de_registro_contable.d = 31
       /\ DATA[j].Fecha_de_registro_contable.m = 11
       /\ DATA[j].Fecha_de_registro_contable.d = 1
       /\ DATA[i].Fecha_de_registro_contable.y
            = DATA[j].Fecha_de_registro_contable.y
       /\ DATA[j].Anio_banda = 2

\* C6: obtener_ipi is the step table with inclusive upper bounds: 0.7 plus
\* one tenth per breakpoint that C exceeds; C = 0.2 gives 0.7, 0.2000001
\* gives 0.8, 5.0 gives 1.7, 0 gives 0.7; no smaller C gives a larger value.
C6_TablaIPI ==
  (pc = "fin" /\ ~c_cociente.nan) =>
    /\ ipi_final =
         7 + Cardinality({k \in Cortes : c_cociente.num * 10 > k * c_cociente.den})
    /\ c_cociente = Numero(2000000, Escala) => ipi_final = 7
    /\ c_cociente = Numero(2000001, Escala) => ipi_final = 8
    /\ c_cociente = Numero(50000000, Escala) => ipi_final = 17
    /\ c_cociente = Numero(0, Escala) => ipi_final = 7
    /\ \A n \in ValoresC :
         n <= c_cociente.num => obtener_ipi(Numero(n, Escala)) <= ipi_final

\* The value just above the first breakpoint has been looked up.
C6_Testigo ==
  /\ pc = "fin"
  /\ c_cociente = Numero(2000001, Escala)
  /\ ipi_final = 8

\* C7: with no Type A and no Type B total, the average annual loss is
\* exactly 0, and so are the capital result and the ratio C.
C7_PromedioCero ==
  (TrasConsolidar /\ df_filtrado = {} /\ tabla_riesgo_banda_umbral = {}) =>
    /\ promedio_anual = Cero
    /\ pc \in {"ipi", "fin"} =>
         /\ ~cp_calculado.nan /\ cp_calculado.num = 0
         /\ ~c_cociente.nan /\ c_cociente.num = 0

\* C8: after the window step the register handed in by the caller is as it
\* was before the call.
C8_SinEfectoLateral == TrasVentana => An9 = An9_in

\* C9: the groups of the Type B test sum the gross loss of the rows of
\* references that are not Type A only; a group is flagged exactly when
\* that sum reaches the threshold, and the Type B total of a band is the sum
\* of those sums.
C9_ExcluyeTipoA ==
  TrasTipoB =>
    /\ \A g \in tabla_riesgo_banda :
         g.Cuantia_bruta
           = BrutoNoA(g.Clase_de_riesgo_operacional_nivel_2, g.Anio_banda)
    /\ \A i \in DOMAIN DATA :
         BrutoNoA(DATA[i].Clase_de_riesgo_operacional_nivel_2,
                  DATA[i].Anio_banda) < umbral_input
           => ~GrupoMarcadoB(DATA[i].Clase_de_riesgo_operacional_nivel_2,
                             DATA[i].Anio_banda)
    /\ \A b \in DOMAIN totalizador_umbral_anio :
         totalizador_umbral_anio[b] =
           SumaSobre({i \in DOMAIN DATA :
                        /\ DATA[i].Anio_banda = b
                        /\ ~ReferenciaSobreUmbral(DATA[i].Referencia)
                        /\ GrupoMarcadoB(
                             DATA[i].Clase_de_riesgo_operacional_nivel_2, b)},
                     [i \in DOMAIN DATA |-> DATA[i].Cuantia_bruta])

\* A group reaches the threshold with its Type A rows and not without them,
\* has a row that is not Type A, and is not flagged.
C9_Testigo ==
  /\ TrasTipoB
  /\ \E i \in DOMAIN DATA :
       /\ ~ReferenciaSobreUmbral(DATA[i].Referencia)
       /\ DATA[i].Clase_de_riesgo_operacional_nivel_2 # SinEtiqueta
       /\ BrutoNoA(DATA[i].Clase_de_riesgo_operacional_nivel_2,
                   DATA[i].Anio_banda) < umbral_input
       /\ BrutoTodas(DATA[i].Clase_de_riesgo_operacional_nivel_2,
                     DATA[i].Anio_banda) >= umbral_input
       /\ ~GrupoMarcadoB(DATA[i].Clase_de_riesgo_operacional_nivel_2,
                         DATA[i].Anio_banda)

CodigoSinCategoria(i) ==
  An9_2[i].Clase_de_riesgo_operacional_nivel_2 \notin DOMAIN map_riesgo_nivel_2

\* C10: a row whose risk-class code is no key of the category table is "A"
\* when its reference is Type A and "N/A" otherwise, never "B", and the
\* Type B total of a band is made of the rows with a known code only.
C10_CodigoDesconocido ==
  Clasificado =>
    /\ \A i \in DOMAIN DATA :
         CodigoSinCategoria(i) =>
           DATA[i].Tipo_de_umbral =
             (IF ReferenciaSobreUmbral(DATA[i].Referencia) THEN "A" ELSE "N/A")
    /\ \A b \in {DATA[i].Anio_banda : i \in DOMAIN DATA} :
         EnSerie(totalizador_umbral_anio, b) =
           SumaSobre({i \in DOMAIN DATA :
                        /\ DATA[i].Anio_banda = b
                        /\ ~CodigoSinCategoria(i)
                        /\ DATA[i].Tipo_de_umbral = "B"},
                     [i \in DOMAIN DATA |-> DATA[i].Cuantia_bruta])

\* A row with an unknown code and a gross loss that reaches the threshold,
\* of a reference that is not Type A, is "N/A".
C10_Testigo ==
  /\ Clasificado
  /\ \E i \in DOMAIN DATA :
       /\ CodigoSinCategoria(i)
       /\ DATA[i].Cuantia_bruta >= umbral_input
       /\ DATA[i].Referencia \notin refs_umbral
       /\ DATA[i].Tipo_de_umbral = "N/A"

====
